---- MODULE Spec2Model ----
(***************************************************************************)
(* Model of fayvor/battery-model: the diffusion battery                    *)
(* (battery/diffusion_battery.py), the cycling program                     *)
(* (battery/tester_program.py) and the tester loop with its metrics        *)
(* (battery/tester.py, battery/metric.py).                                 *)
(*                                                                         *)
(* Numbers.  The program computes in floating point; the model computes    *)
(* in exact rationals [n, d] (d > 0, lowest terms), so that equal values   *)
(* are equal records.  Rounding error is outside the model.                *)
(*                                                                         *)
(* Arrays.  A numpy array is a record [dtype, a] with a a TLA+ sequence;   *)
(* Python index i is At(arr, i) = arr.a[i + 1].  Storing into an array of  *)
(* dtype "int64" truncates toward zero, as numpy does.                     *)
(***************************************************************************)
EXTENDS Integers, Sequences, FiniteSets, TLC

\* ------------------------------------------------------------------ bounds

\* Length of the charge curve (config.N is 1000; the test uses 3).
CurveLen == 3

\* Largest number of apply_potential calls in SpecBattery.
MaxApply == 3

\* SpecProgram stops calling advance when the global counter reaches this.
MaxTimestep == 23

\* Spec stops calling advance_timestep when the global counter reaches this.
MaxFrames == 4

\* Largest cell value of a constructor-supplied curve.
MaxCharge == 3

\* Test doubles f(p) = a*p + b have |a| <= MaxSlope and |b| <= MaxOffset;
\* solver targets t have |t| <= MaxTarget.
MaxSlope == 2
MaxOffset == 1
MaxTarget == 2

\* ------------------------------------------------------- program constants

CHARGE_CC == 15
CHARGE_CV == 4
DISCHARGE_CV == 0
ZERO_CURRENT_THRESHOLD == 1
REST_TIMESTEPS == 20
DPOT_INIT == 0

\* ---------------------------------------------------------------- numbers

Abs(x) == IF x < 0 THEN -x ELSE x

RECURSIVE GCD(_, _)
GCD(a, b) == IF b = 0 THEN a ELSE GCD(b, a % b)

\* The rational n/d (d # 0) in lowest terms with a positive denominator.
Norm(n, d) ==
    LET g == GCD(Abs(n), Abs(d))
        s == IF d < 0 THEN -1 ELSE 1
    IN  [n |-> s * (n \div g), d |-> Abs(d) \div g]

Q(i) == [n |-> i, d |-> 1]

RAdd(x, y) == Norm(x.n * y.d + y.n * x.d, x.d * y.d)
RSub(x, y) == Norm(x.n * y.d - y.n * x.d, x.d * y.d)
RMul(x, y) == Norm(x.n * y.n, x.d * y.d)
RDiv(x, y) == Norm(x.n * y.d, x.d * y.n)
RLt(x, y) == x.n * y.d < y.n * x.d
RLe(x, y) == x.n * y.d <= y.n * x.d

\* int(x): truncation toward zero, what numpy stores into an int64 cell.
Trunc(x) == IF x.n >= 0 THEN x.n \div x.d ELSE -((-x.n) \div x.d)

\* ----------------------------------------------------------------- arrays

At(arr, i) == arr.a[i + 1]

Cast(dtype, v) == IF dtype = "int64" THEN Q(Trunc(v)) ELSE v

\* arr[0] = v
SetItem0(arr, v) == [arr EXCEPT !.a[1] = Cast(arr.dtype, v)]

RECURSIVE SumSeq(_)
SumSeq(s) == IF s = <<>> THEN Q(0) ELSE RAdd(Head(s), SumSeq(Tail(s)))

\* np.sum(arr) / arr.sum()
NpSum(arr) == SumSeq(arr.a)

\* The sequence f as an explicit tuple (the same value, evaluated once).
Tuple(f) == f \o <<>>

\* np.flip(s)
Flip(s) == Tuple([i \in 1..Len(s) |-> s[Len(s) + 1 - i]])

\* Charge.get_init_vals()[1]: N integer zeros.
InitCurve == [dtype |-> "int64", a |-> Tuple([i \in 1..CurveLen |-> Q(0)])]

\* ---------------------------------------------------------------- battery
\* battery/diffusion_battery.py.  A battery object is a record
\* [soc, ocp, charge_curve, compute_current, compute_ocp]; the last two are
\* what the attribute lookups self.compute_current and self.compute_ocp
\* yield: the class's methods unless a test double replaced them.

\* bat.cathode_width as the repository's test sets it.
cathode_width == 3

\* The kernel for cathode_width = 3: sigma = 0.3 and gx = (-0.9, 0.1, 1.1),
\* three samples exp(-gx^2 / (2 sigma^2)) ~ (0.0111, 0.9460, 0.0012).  The
\* samples are irrational; the model keeps their number, their positivity
\* and their order (middle > first > last) with integer weights, and
\* normalises them by their sum as the code does.
gaussian_samples == <<2, 5, 1>>

\* gaussian = gaussian / np.sum(gaussian)
gaussian ==
    LET total == SumSeq([j \in 1..Len(gaussian_samples) |-> Q(gaussian_samples[j])])
    IN  Tuple([j \in 1..Len(gaussian_samples) |-> RDiv(Q(gaussian_samples[j]), total)])

\* Entry k (from 1) of np.convolve(base, g, mode="same") for
\* Len(base) >= Len(g): the entry of the full convolution shifted by
\* (Len(g) - 1) div 2, entries outside base counting as zero.
ConvolveSameAt(base, g, k) ==
    LET off == (Len(g) - 1) \div 2
        B(m) == IF m >= 1 /\ m <= Len(base) THEN base[m] ELSE Q(0)
    IN  SumSeq([j \in 1..Len(g) |-> RMul(B(k + off - j + 1), g[j])])

compute_charge_curve(drive_pot, charge_curve) ==
    LET y == SetItem0(charge_curve, drive_pot)
        zeros == Tuple([j \in 1..Len(gaussian) |-> Q(0)])
        prepend == Tuple([j \in 1..Len(gaussian) |-> At(y, 0)])
        base == zeros \o prepend \o y.a \o Flip(y.a)
        pad_len == 2 * Len(gaussian)
    IN  \* np.convolve(base, gaussian, mode="same")[pad_len:-len(y)]
        [dtype |-> "float64",
         a |-> Tuple([i \in 1..(Len(base) - Len(y.a) - pad_len) |->
                        ConvolveSameAt(base, gaussian, pad_len + i)])]

\* DiffusionBattery.compute_current
diffusion_current(drive_pot, charge_curve) ==
    RSub(NpSum(compute_charge_curve(drive_pot, charge_curve)), NpSum(charge_curve))

\* DiffusionBattery.compute_ocp
diffusion_ocp(drive_pot, charge_curve) ==
    At(compute_charge_curve(drive_pot, charge_curve), 0)

\* A function value passed around by the solver: one of the two methods, or
\* a test double f(p) = a*p + b that ignores the curve.
Method(name) == [kind |-> name, a |-> 0, b |-> 0]
Linear(a, b) == [kind |-> "linear", a |-> a, b |-> b]

\* f(drive_pot, charge_curve)
Observe(f, drive_pot, charge_curve) ==
    CASE f.kind = "compute_current" -> diffusion_current(drive_pot, charge_curve)
      [] f.kind = "compute_ocp" -> diffusion_ocp(drive_pot, charge_curve)
      [] OTHER -> RAdd(RMul(Q(f.a), drive_pot), Q(f.b))

\* Evaluations of compute_charge_curve made by one call of f.
UpdatesPerObserve(f) == IF f.kind = "linear" THEN 0 ELSE 1

\* get_calc_current(charge_curve)(drive_pot), get_calc_ocp(charge_curve)(drive_pot)
calc_val(f, charge_curve, drive_pot) ==
    LET new_charge_curve == SetItem0(charge_curve, drive_pot)
    IN  Observe(f, drive_pot, new_charge_curve)

\* DiffusionBattery(): soc = 0, ocp = 0, the default curve.
NewBattery(curve) ==
    [soc |-> Q(0), ocp |-> Q(0), charge_curve |-> curve,
     compute_current |-> Method("compute_current"),
     compute_ocp |-> Method("compute_ocp")]

\* apply_potential with self.soc left as it was.
apply_potential_stale_soc(self, potential) ==
    LET new_charge_curve == compute_charge_curve(potential, self.charge_curve)
    IN  [self |-> [self EXCEPT !.charge_curve = new_charge_curve,
                               !.ocp = At(new_charge_curve, 1)],
         ocp |-> At(new_charge_curve, 1),
         timestep_current |-> RSub(NpSum(new_charge_curve), self.soc)]

\* The new battery and the pair apply_potential returns.
apply_potential(self, potential) ==
    LET new_charge_curve == compute_charge_curve(potential, self.charge_curve)
        prior_soc == self.soc
        new_soc == NpSum(new_charge_curve)
    IN  [self |-> [self EXCEPT !.charge_curve = new_charge_curve,
                               !.ocp = At(new_charge_curve, 1),
                               !.soc = new_soc],
         ocp |-> At(new_charge_curve, 1),
         timestep_current |-> RSub(new_soc, prior_soc)]

\* ----------------------------------------------------------------- solver

\* get_slope_intercept without its guard, a flat line defaulted to slope 0.
get_slope_intercept_default(pt1, pt2) ==
    IF RSub(pt1[1], pt2[1]) = Q(0)
    THEN [ok |-> TRUE, slope |-> Q(0), intercept |-> pt1[2]]
    ELSE LET slope == RDiv(RSub(pt1[2], pt2[2]), RSub(pt1[1], pt2[1]))
         IN  [ok |-> TRUE, slope |-> slope,
              intercept |-> RSub(pt1[2], RMul(slope, pt1[1]))]

\* get_slope_intercept(pt1, pt2): points are <<value, drive_pot>>.
get_slope_intercept(pt1, pt2) ==
    IF RSub(pt1[1], pt2[1]) = Q(0)
    THEN [ok |-> FALSE, slope |-> Q(0), intercept |-> Q(0)]
    ELSE LET slope == RDiv(RSub(pt1[2], pt2[2]), RSub(pt1[1], pt2[1]))
         IN  [ok |-> TRUE, slope |-> slope,
              intercept |-> RSub(pt1[2], RMul(slope, pt1[1]))]

\* What a solver call yields: a value (err = "") or the exception raised,
\* and the number of calls of the observation function it made.
Returned(v, n) == [err |-> "", val |-> v, observed |-> n]
Raised(e, n) == [err |-> e, val |-> Q(0), observed |-> n]

\* guess_drive_pot with the pairing assertion left out.
guess_drive_pot_no_assert(charge_curve, f, target_val) ==
    LET drive_pot == At(charge_curve, 0)
        actual_val == Observe(f, drive_pot, charge_curve)
        guess == RAdd(drive_pot, Q(1))
        guess_charge_y == SetItem0(charge_curve, guess)
        guess_val == Observe(f, guess, guess_charge_y)
        line == get_slope_intercept(<<actual_val, drive_pot>>, <<guess_val, guess>>)
    IN  IF actual_val = target_val
        THEN Returned(drive_pot, 1)
        ELSE IF ~line.ok
        THEN Raised("ZeroDivisionError", 2)
        ELSE Returned(RAdd(RMul(line.slope, target_val), line.intercept), 2)

\* guess_drive_pot(charge_curve, f, get_calc(f), target_val), with assert
\* statements executed.  The third field of the result counts the calls of
\* f made: actual_val, the assertion's, guess_val.
guess_drive_pot(charge_curve, f, target_val) ==
    LET drive_pot == At(charge_curve, 0)
        actual_val == Observe(f, drive_pot, charge_curve)
        guess == RAdd(drive_pot, Q(1))
        guess_charge_y == SetItem0(charge_curve, guess)
        guess_val == Observe(f, guess, guess_charge_y)
        line == get_slope_intercept(<<actual_val, drive_pot>>, <<guess_val, guess>>)
    IN  IF actual_val = target_val
        THEN Returned(drive_pot, 1)
        ELSE IF actual_val # calc_val(f, charge_curve, drive_pot)
        THEN Raised("AssertionError", 2)
        ELSE IF ~line.ok
        THEN Raised("ZeroDivisionError", 3)
        ELSE Returned(RAdd(RMul(line.slope, target_val), line.intercept), 3)

get_driver_for_target_current(self, target_influx) ==
    guess_drive_pot(self.charge_curve, self.compute_current, target_influx)

get_driver_for_target_ocp(self, target_ocp) ==
    guess_drive_pot(self.charge_curve, self.compute_ocp, target_ocp)

\* ---------------------------------------------------------------- program
\* battery/tester_program.py.  A TesterProgram object is a record
\* [step, timestep, timesteps_in_step, driver].

Phases == {"CHARGE_CC", "CHARGE_CV", "REST", "DISCHARGE_CC", "DISCHARGE_CV"}

NewProgram ==
    [step |-> "CHARGE_CC", timestep |-> 1, timesteps_in_step |-> 1,
     driver |-> Q(DPOT_INIT)]

\* Increment with the flag ignored: re-entrant calls count timesteps too.
IncrementAlways(counter, increment_timesteps) == counter + 1

\* if increment_timesteps: counter += 1
Increment(counter, increment_timesteps) ==
    IF increment_timesteps THEN counter + 1 ELSE counter

\* ExitCondition with CHARGE_CC left only above CHARGE_CV.
ExitConditionStrict(step, pot, current, count) ==
    CASE step = "CHARGE_CC" -> RLt(Q(CHARGE_CV), pot)
      [] step = "CHARGE_CV" -> RLt(current, Q(ZERO_CURRENT_THRESHOLD))
      [] step = "REST" -> count > REST_TIMESTEPS
      [] step = "DISCHARGE_CC" -> RLe(pot, Q(DISCHARGE_CV))
      [] step = "DISCHARGE_CV" -> RLt(Q(-ZERO_CURRENT_THRESHOLD), current)

\* The test that makes advance change step; count is the local
\* timesteps_in_step, read on entry before the counters are incremented.
ExitCondition(step, pot, current, count) ==
    CASE step = "CHARGE_CC" -> RLe(Q(CHARGE_CV), pot)
      [] step = "CHARGE_CV" -> RLt(current, Q(ZERO_CURRENT_THRESHOLD))
      [] step = "REST" -> count > REST_TIMESTEPS
      [] step = "DISCHARGE_CC" -> RLe(pot, Q(DISCHARGE_CV))
      [] step = "DISCHARGE_CV" -> RLt(Q(-ZERO_CURRENT_THRESHOLD), current)

\* SwitchTo with CHARGE_CC going straight to REST.
SwitchToSkip(step) ==
    CASE step = "CHARGE_CC" -> "REST"
      [] step = "CHARGE_CV" -> "REST"
      [] step = "REST" -> "DISCHARGE_CC"
      [] step = "DISCHARGE_CC" -> "DISCHARGE_CV"
      [] step = "DISCHARGE_CV" -> "CHARGE_CC"

\* The step assigned to self.step when the test holds.
SwitchTo(step) ==
    CASE step = "CHARGE_CC" -> "CHARGE_CV"
      [] step = "CHARGE_CV" -> "REST"
      [] step = "REST" -> "DISCHARGE_CC"
      [] step = "DISCHARGE_CC" -> "DISCHARGE_CV"
      [] step = "DISCHARGE_CV" -> "CHARGE_CC"

\* DriverFor with every step given CHARGE_CC's target current.
DriverForCharging(step, battery) ==
    get_driver_for_target_current(battery, Q(CHARGE_CC))

\* The solver call made when the step is kept.
DriverFor(step, battery) ==
    CASE step = "CHARGE_CC" -> get_driver_for_target_current(battery, Q(CHARGE_CC))
      [] step = "CHARGE_CV" -> get_driver_for_target_ocp(battery, Q(CHARGE_CV))
      [] step = "REST" -> get_driver_for_target_current(battery, Q(0))
      [] step = "DISCHARGE_CC" -> get_driver_for_target_current(battery, Q(-CHARGE_CC))
      [] step = "DISCHARGE_CV" -> get_driver_for_target_ocp(battery, Q(DISCHARGE_CV))

\* A run of advance: the program object as the call leaves it, with a trace
\* of the call: path and counts hold, per invocation (the call and its
\* re-entrant calls, in order), the step it found and the local
\* timesteps_in_step it read; err is the exception that ended the call;
\* stores counts the assignments to self.driver.
StartRun(self) ==
    [step |-> self.step, timestep |-> self.timestep,
     timesteps_in_step |-> self.timesteps_in_step, driver |-> self.driver,
     path |-> <<>>, counts |-> <<>>, err |-> "", stores |-> 0]

RECURSIVE advance(_, _, _, _)
advance(self, battery, current, increment_timesteps) ==
    LET step == self.step
        count == self.timesteps_in_step
        s1 == [self EXCEPT !.timestep = Increment(@, increment_timesteps),
                           !.timesteps_in_step = Increment(@, increment_timesteps),
                           !.path = Append(@, step),
                           !.counts = Append(@, count)]
        pot == battery.ocp
    IN  IF step \notin Phases
        THEN [s1 EXCEPT !.err = "Exception"]
        ELSE IF ExitCondition(step, pot, current, count)
        THEN advance([s1 EXCEPT !.step = SwitchTo(step)], battery, current, FALSE)
        ELSE LET r == DriverFor(step, battery)
             IN  IF r.err # ""
                 THEN [s1 EXCEPT !.err = r.err]
                 ELSE [s1 EXCEPT !.driver = r.val, !.stores = @ + 1]

ProgramOf(run) ==
    [step |-> run.step, timestep |-> run.timestep,
     timesteps_in_step |-> run.timesteps_in_step, driver |-> run.driver]

\* ----------------------------------------------------------------- arrays as objects
\* The same methods with numpy arrays as objects: a heap is the sequence of
\* the arrays that exist, a reference an index into it.  An item assignment
\* changes the array in place for every holder of the reference; copy()
\* and the functions that build an array make a new one.

\* A new array object.
Alloc(heap, arr) == [heap |-> Append(heap, arr), ref |-> Len(heap) + 1]

\* copy() handing back the array itself.
ArrayCopyAlias(heap, ref) == [heap |-> heap, ref |-> ref]

\* arr.copy()
ArrayCopy(heap, ref) == Alloc(heap, heap[ref])

\* arr[0] = v, in place
StoreItem0(heap, ref, v) == [heap EXCEPT ![ref] = SetItem0(@, v)]

\* The one element of a set built to evaluate its element once.
The(S) == CHOOSE v \in S : TRUE

\* compute_charge_curve(drive_pot, charge_curve): y is a copy, the result a
\* new array.
compute_charge_curve_heap(heap, drive_pot, ref) ==
    The({LET h == StoreItem0(y.heap, y.ref, drive_pot)
         IN  Alloc(h, compute_charge_curve(drive_pot, h[y.ref])) :
            y \in {ArrayCopy(heap, ref)}})

\* f(drive_pot, charge_curve): the heap it leaves and its value; the
\* second np.sum of compute_current reads the argument after the update.
ObserveHeap(f, heap, drive_pot, ref) ==
    IF f.kind \notin {"compute_current", "compute_ocp"}
    THEN [heap |-> heap, val |-> Observe(f, drive_pot, heap[ref])]
    ELSE The({[heap |-> r.heap,
               val |-> IF f.kind = "compute_current"
                       THEN RSub(NpSum(r.heap[r.ref]), NpSum(r.heap[ref]))
                       ELSE At(r.heap[r.ref], 0)] :
                 r \in {compute_charge_curve_heap(heap, drive_pot, ref)}})

\* get_calc_current(charge_curve)(drive_pot), get_calc_ocp(charge_curve)(drive_pot)
calc_val_heap(f, heap, ref, drive_pot) ==
    The(UNION {{ObserveHeap(f, h, drive_pot, new_charge_curve.ref) :
                    h \in {StoreItem0(new_charge_curve.heap, new_charge_curve.ref, drive_pot)}} :
                 new_charge_curve \in {ArrayCopy(heap, ref)}})

\* The second sample of guess_drive_pot: a copy of the curve with the guess
\* in cell 0, observed.
guess_val_heap(f, heap, ref, guess) ==
    The(UNION {{ObserveHeap(f, h, guess, guess_charge_y.ref) :
                    h \in {StoreItem0(guess_charge_y.heap, guess_charge_y.ref, guess)}} :
                 guess_charge_y \in {ArrayCopy(heap, ref)}})

\* guess_drive_pot: the heap it leaves and what it yields.
guess_drive_pot_heap(heap, ref, f, target_val) ==
    LET drive_pot == At(heap[ref], 0)
        guess == RAdd(drive_pot, Q(1))
    IN  The(UNION {
          IF actual.val = target_val
          THEN {[heap |-> actual.heap, result |-> Returned(drive_pot, 1)]}
          ELSE UNION {
            IF actual.val # paired.val
            THEN {[heap |-> paired.heap, result |-> Raised("AssertionError", 2)]}
            ELSE {LET line == get_slope_intercept(<<actual.val, drive_pot>>,
                                                  <<guess_obs.val, guess>>)
                  IN  [heap |-> guess_obs.heap,
                       result |-> IF ~line.ok THEN Raised("ZeroDivisionError", 3)
                                  ELSE Returned(RAdd(RMul(line.slope, target_val),
                                                     line.intercept), 3)] :
                     guess_obs \in {guess_val_heap(f, paired.heap, ref, guess)}} :
            paired \in {calc_val_heap(f, actual.heap, ref, drive_pot)}} :
          actual \in {ObserveHeap(f, heap, drive_pot, ref)}})

\* The solver call advance makes in the step it keeps, on the battery's own
\* array; the invocations that switch step call nothing on the battery.
DriverForHeap(step, heap, ref, battery) ==
    CASE step = "CHARGE_CC" ->
             guess_drive_pot_heap(heap, ref, battery.compute_current, Q(CHARGE_CC))
      [] step = "CHARGE_CV" ->
             guess_drive_pot_heap(heap, ref, battery.compute_ocp, Q(CHARGE_CV))
      [] step = "REST" ->
             guess_drive_pot_heap(heap, ref, battery.compute_current, Q(0))
      [] step = "DISCHARGE_CC" ->
             guess_drive_pot_heap(heap, ref, battery.compute_current, Q(-CHARGE_CC))
      [] step = "DISCHARGE_CV" ->
             guess_drive_pot_heap(heap, ref, battery.compute_ocp, Q(DISCHARGE_CV))

\* apply_potential: self.charge_curve = new_charge_curve rebinds the
\* attribute to the new array.
apply_potential_heap(heap, ref, potential) ==
    compute_charge_curve_heap(heap, potential, ref)

\* ---------------------------------------------------------------- metrics
\* battery/metric.py.  A Metric is a record [x, y] of two histories;
\* Charge holds the cell indices and the curve instead.

\* Metric.__init__(x, y)
NewMetric(x, y) == [x |-> <<x>>, y |-> <<y>>]

\* Metric.update keeping only the latest sample before the new one.
MetricUpdateWindow(m, x_val, y_val) ==
    [x |-> <<m.x[Len(m.x)], x_val>>, y |-> <<m.y[Len(m.y)], y_val>>]

\* Metric.update(x_val, y_val): np.append
MetricUpdate(m, x_val, y_val) == [x |-> Append(m.x, x_val), y |-> Append(m.y, y_val)]

\* Charge.update(x_val, y_val)
ChargeUpdate(m, x_val, y_val) == [x |-> x_val, y |-> y_val]

\* Metric.get_val
MetricVal(m) == m.y[Len(m.y)]

\* Metric.delta
MetricDelta(m) == RSub(m.y[Len(m.y)], m.y[Len(m.y) - 1])

\* Tester.__init__
NewMetrics(bat) ==
    [charge |-> [x |-> Tuple([i \in 1..CurveLen |-> i - 1]), y |-> bat.charge_curve],
     soc |-> NewMetric(0, Q(0)),
     influx |-> NewMetric(0, Q(0)),
     driver |-> NewMetric(0, Q(0)),
     potential |-> NewMetric(0, Q(0))]

\* ------------------------------------------------------------------ state

VARIABLES
    program,   \* the TesterProgram object
    battery,   \* the DiffusionBattery object
    metrics,   \* the Tester's Metrics tuple
    call,      \* the last operation: its arguments and what it did
    hist       \* counts of the operations made so far

vars == <<program, battery, metrics, call, hist>>

NoCall ==
    [op |-> "none", pending |-> FALSE, bat |-> NewBattery(InitCurve), num |-> Q(0),
     f |-> Method("none"), before |-> NewProgram, run |-> StartRun(NewProgram),
     result |-> Returned(Q(0), 0), ret |-> Q(0), rest_span |-> 0,
     metrics |-> NewMetrics(NewBattery(InitCurve)),
     heap |-> <<>>, ref |-> 0, after |-> NewBattery(InitCurve)]

NoHist == [advances |-> 0, rest_steps |-> 0, applies |-> 0, frames |-> 0]

\* battery_test_runner.run(): a default battery, a new program, a tester.
Init ==
    /\ program = NewProgram
    /\ battery = NewBattery(InitCurve)
    /\ metrics = NewMetrics(battery)
    /\ call = NoCall
    /\ hist = NoHist

\* ------------------------------------------------------------- operations

\* Whether the run left REST, and the timestep-consuming calls the program
\* then spent in REST: those that ended in REST, plus the one leaving it.
LeftRest(run) ==
    \E i \in 1..(Len(run.path) - 1) : run.path[i] = "REST"

RestSpan(run) ==
    IF ~LeftRest(run) THEN 0
    ELSE IF run.path[1] = "REST" THEN hist.rest_steps + 1
    ELSE 1

HistAfterAdvance(run) ==
    [hist EXCEPT !.advances = @ + 1,
                 !.rest_steps = IF run.step # "REST" THEN 0
                                ELSE IF Len(run.path) = 1 THEN @ + 1
                                ELSE 1]

\* program.advance(bat, current)
AdvanceCall(bat, current, limit) ==
    /\ program.timestep < limit
    /\ \E run \in {advance(StartRun(program), bat, current, TRUE)} :
           /\ program' = ProgramOf(run)
           /\ call' = [NoCall EXCEPT !.op = "advance", !.bat = bat, !.num = current,
                                     !.before = program, !.run = run,
                                     !.rest_span = RestSpan(run)]
           /\ hist' = HistAfterAdvance(run)
    /\ UNCHANGED <<battery, metrics>>

\* battery.apply_potential(potential)
ApplyPotentialCall(potential) ==
    /\ hist.applies < MaxApply
    /\ \E r \in {apply_potential(battery, potential)} :
           /\ battery' = r.self
           /\ call' = [NoCall EXCEPT !.op = "apply_potential", !.bat = battery,
                                     !.num = potential, !.ret = r.timestep_current]
    /\ hist' = [hist EXCEPT !.applies = @ + 1]
    /\ UNCHANGED <<program, metrics>>

\* tester.advance_timestep(): record the driver, apply it, re-derive the
\* metrics, advance the program.  An exception of advance leaves what the
\* statements before it did.
AdvanceTimestep ==
    /\ hist.frames < MaxFrames
    /\ \E r \in {apply_potential(battery, program.driver)} :
       \E m \in {LET m1 == [metrics EXCEPT !.driver =
                                MetricUpdate(@, program.timestep, program.driver)]
                     m2 == [m1 EXCEPT !.charge = ChargeUpdate(@, @.x, r.self.charge_curve)]
                     m3 == [m2 EXCEPT !.soc =
                                MetricUpdate(@, program.timestep, NpSum(m2.charge.y))]
                     m4 == [m3 EXCEPT !.influx =
                                MetricUpdate(@, program.timestep, MetricDelta(m3.soc))]
                 IN  [m4 EXCEPT !.potential =
                                MetricUpdate(@, program.timestep, At(m4.charge.y, 0))]} :
       \E run \in {advance(StartRun(program), r.self, MetricVal(m.influx), TRUE)} :
           /\ battery' = r.self
           /\ metrics' = m
           /\ program' = ProgramOf(run)
           /\ call' = [NoCall EXCEPT !.op = "advance_timestep", !.bat = battery,
                                     !.num = program.driver, !.before = program,
                                     !.run = run, !.ret = r.timestep_current,
                                     !.rest_span = RestSpan(run),
                                     !.metrics = metrics]
           /\ hist' = [HistAfterAdvance(run) EXCEPT !.frames = @ + 1]

\* A call whose arguments are chosen and which has not run yet.
Request(op, bat, f, num, step) ==
    [NoCall EXCEPT !.pending = TRUE, !.op = op, !.bat = bat, !.f = f, !.num = num,
                   !.before = [NewProgram EXCEPT !.step = step]]

\* p = TesterProgram(); p.step = step; p.advance(bat, current): a call on a
\* program object of the caller's own, which the tester's program is not.
FreshAdvanceCall ==
    /\ call.pending /\ call.op = "fresh_advance"
    /\ call' = [call EXCEPT !.pending = FALSE,
                            !.run = advance(StartRun(call.before), call.bat, call.num, TRUE)]
    /\ UNCHANGED <<program, battery, metrics, hist>>

\* bat.guess_drive_pot(charge_curve, f, get_calc(f), target)
GuessDrivePotCall ==
    /\ call.pending /\ call.op = "guess_drive_pot"
    /\ call' = [call EXCEPT !.pending = FALSE,
                            !.result = guess_drive_pot(call.bat.charge_curve, call.f, call.num)]
    /\ UNCHANGED <<program, battery, metrics, hist>>

\* bat.get_driver_for_target_current(target)
GetDriverForTargetCurrentCall ==
    /\ call.pending /\ call.op = "get_driver_for_target_current"
    /\ call' = [call EXCEPT !.pending = FALSE,
                            !.result = get_driver_for_target_current(call.bat, call.num)]
    /\ UNCHANGED <<program, battery, metrics, hist>>

\* tests/test_diffusion_battery.py: drive_pot = bat.get_driver_for_target_ocp(
\* target) and then the projection bat.get_calc_ocp(bat.charge_curve)(drive_pot).
ProjectOcpCall ==
    /\ call.pending /\ call.op = "get_driver_for_target_ocp"
    /\ \E r \in {get_driver_for_target_ocp(call.bat, call.num)} :
           call' = [call EXCEPT !.pending = FALSE, !.result = r,
                                !.ret = IF r.err = ""
                                        THEN calc_val(call.bat.compute_ocp,
                                                      call.bat.charge_curve, r.val)
                                        ELSE Q(0)]
    /\ UNCHANGED <<program, battery, metrics, hist>>

\* ----------------------------------------------------------------- inputs

\* Potentials applied to the battery directly: integers and a fraction.
Potentials == {Q(-8), Q(0), Q(8), Q(32), Q(40), [n |-> 1, d |-> 2]}

\* Batteries handed to advance: the default battery after one step, with
\* ocp -1, 0, 1, 4 and 5.
Batteries == {apply_potential(NewBattery(InitCurve), Q(p)).self : p \in {-8, 0, 8, 32, 40}}

\* Currents handed to advance, on both sides of both thresholds.
Currents == {Q(c) : c \in -1..1}

\* Solver targets.
Targets == {Q(t) : t \in -MaxTarget..MaxTarget}

\* Test doubles for the observation function, the constant ones among them.
Doubles == {Linear(a, b) : a \in -MaxSlope..MaxSlope, b \in -MaxOffset..MaxOffset}

\* Curves handed to guess_drive_pot with a test double: only cell 0 matters.
DoubleCurves ==
    {[dtype |-> "float64", a |-> Tuple([i \in 1..CurveLen |-> Q(IF i = 1 THEN p ELSE 0)])] :
        p \in 0..1}

\* bat.charge_curve = np.array([1, 2, 3]), as the repository's test sets it.
TestCurve == [dtype |-> "int64", a |-> Tuple([i \in 1..CurveLen |-> Q(i)])]

\* Batteries handed to the solver: the default one, the test's, and the
\* default one after a step (a float64 curve).
SolverBatteries ==
    {NewBattery(InitCurve), NewBattery(TestCurve)} \cup
    {apply_potential(NewBattery(TestCurve), Q(p)).self : p \in {1, 8}}

\* Batteries whose compute_current and compute_ocp a test replaced by
\* constant functions.
DoubleBatteries ==
    {[NewBattery(InitCurve) EXCEPT !.ocp = Q(o),
                                   !.compute_current = Linear(0, b),
                                   !.compute_ocp = Linear(0, b)] :
        o \in {0, 4}, b \in -MaxOffset..MaxOffset}


\* A pending call of a battery or program method run on a battery whose
\* charge_curve is the array at reference 1: the heap it leaves, the array the
\* battery's attribute then refers to, and the battery's fields.
FrameRun(op, heap, ref, after) ==
    /\ call.pending /\ call.op = op
    /\ call' = [call EXCEPT !.pending = FALSE, !.heap = heap, !.ref = ref,
                            !.after = [after EXCEPT !.charge_curve = heap[ref]]]
    /\ UNCHANGED <<program, battery, metrics, hist>>

Heap0 == <<call.bat.charge_curve>>

\* bat.compute_charge_curve(drive_pot, bat.charge_curve)
ComputeChargeCurveFrame ==
    /\ call.pending /\ call.op = "compute_charge_curve"
    /\ \E r \in {compute_charge_curve_heap(Heap0, call.num, 1)} :
           FrameRun("compute_charge_curve", r.heap, 1, call.bat)

\* bat.compute_current(drive_pot, bat.charge_curve)
ComputeCurrentFrame ==
    /\ call.pending /\ call.op = "compute_current"
    /\ \E r \in {ObserveHeap(Method("compute_current"), Heap0, call.num, 1)} :
           FrameRun("compute_current", r.heap, 1, call.bat)

\* bat.compute_ocp(drive_pot, bat.charge_curve)
ComputeOcpFrame ==
    /\ call.pending /\ call.op = "compute_ocp"
    /\ \E r \in {ObserveHeap(Method("compute_ocp"), Heap0, call.num, 1)} :
           FrameRun("compute_ocp", r.heap, 1, call.bat)

\* bat.get_driver_for_target_current(target)
GetDriverForTargetCurrentFrame ==
    /\ call.pending /\ call.op = "get_driver_for_target_current"
    /\ \E r \in {guess_drive_pot_heap(Heap0, 1, call.bat.compute_current, call.num)} :
           FrameRun("get_driver_for_target_current", r.heap, 1, call.bat)

\* bat.get_driver_for_target_ocp(target)
GetDriverForTargetOcpFrame ==
    /\ call.pending /\ call.op = "get_driver_for_target_ocp"
    /\ \E r \in {guess_drive_pot_heap(Heap0, 1, call.bat.compute_ocp, call.num)} :
           FrameRun("get_driver_for_target_ocp", r.heap, 1, call.bat)

\* program.advance(bat, current)
AdvanceFrame ==
    /\ call.pending /\ call.op = "advance"
    /\ \E run \in {advance(StartRun(call.before), call.bat, call.num, TRUE)} :
       \E r \in {DriverForHeap(run.step, Heap0, 1, call.bat)} :
           FrameRun("advance", r.heap, 1, call.bat)

\* bat.apply_potential(potential)
ApplyPotentialFrame ==
    /\ call.pending /\ call.op = "apply_potential"
    /\ \E r \in {apply_potential_heap(Heap0, 1, call.num)} :
       \E after \in {apply_potential(call.bat, call.num).self} :
           FrameRun("apply_potential", r.heap, r.ref, after)

\* ---------------------------------------------------------- specifications

NextProgram == \E bat \in Batteries, current \in Currents :
                   AdvanceCall(bat, current, MaxTimestep)

\* The cycling program driven through its interface.
SpecProgram == Init /\ [][NextProgram]_vars

NextBattery == \E p \in Potentials : ApplyPotentialCall(p)

\* The battery driven through its interface.
SpecBattery == Init /\ [][NextBattery]_vars

\* The solver calls a test can make: guess_drive_pot with a test double,
\* the two get_driver_for_target methods of a battery, and advance on a
\* battery whose observation functions are constant.
SolverRequests ==
    {Request("guess_drive_pot", NewBattery(c), f, t, "CHARGE_CC") :
        c \in DoubleCurves, f \in Doubles, t \in Targets}
    \cup {Request("get_driver_for_target_current", bat, bat.compute_current, t, "CHARGE_CC") :
        bat \in SolverBatteries, t \in Targets}
    \cup {Request("get_driver_for_target_ocp", bat, bat.compute_ocp, t, "CHARGE_CC") :
        bat \in SolverBatteries, t \in Targets}
    \cup {Request("fresh_advance", bat, Method("none"), current, step) :
        bat \in DoubleBatteries, current \in Currents, step \in Phases}

InitSolver ==
    /\ program = NewProgram
    /\ battery = NewBattery(InitCurve)
    /\ metrics = NewMetrics(battery)
    /\ call \in SolverRequests
    /\ hist = NoHist

NextSolver ==
    \/ GuessDrivePotCall
    \/ GetDriverForTargetCurrentCall
    \/ ProjectOcpCall
    \/ FreshAdvanceCall

\* The solver called directly, through the battery and through the program:
\* one call per behaviour, its arguments drawn in the initial state.
SpecSolver == InitSolver /\ [][NextSolver]_vars

\* Curves a battery can be constructed with: integer cells 0..MaxCharge.
RECURSIVE CurvesOfLen(_)
CurvesOfLen(n) ==
    IF n = 0 THEN {<<>>}
    ELSE {Append(c, Q(v)) : c \in CurvesOfLen(n - 1), v \in 0..MaxCharge}

ConstructorCurves == {[dtype |-> "int64", a |-> c] : c \in CurvesOfLen(CurveLen)}

\* Tester(DiffusionBattery(charge_curve=c), TesterProgram())
InitTester ==
    /\ program = NewProgram
    /\ battery \in {NewBattery(c) : c \in ConstructorCurves}
    /\ metrics = NewMetrics(battery)
    /\ call = NoCall
    /\ hist = NoHist

Next == AdvanceTimestep

\* The tester running the program on the battery, frame by frame.
Spec == InitTester /\ [][Next]_vars

\* The calls whose effect on the battery is observed.
FrameRequests ==
    {Request(op, bat, Method(op), p, "CHARGE_CC") :
        op \in {"compute_charge_curve", "compute_current", "compute_ocp", "apply_potential"},
        bat \in SolverBatteries, p \in Potentials}
    \cup {Request(op, bat, Method(op), t, "CHARGE_CC") :
        op \in {"get_driver_for_target_current", "get_driver_for_target_ocp"},
        bat \in SolverBatteries, t \in Targets}
    \cup {Request("advance", bat, Method("none"), current, step) :
        bat \in SolverBatteries, current \in Currents, step \in Phases}

InitFrame ==
    /\ program = NewProgram
    /\ battery = NewBattery(InitCurve)
    /\ metrics = NewMetrics(battery)
    /\ call \in FrameRequests
    /\ hist = NoHist

NextFrame ==
    \/ ComputeChargeCurveFrame
    \/ ComputeCurrentFrame
    \/ ComputeOcpFrame
    \/ GetDriverForTargetCurrentFrame
    \/ GetDriverForTargetOcpFrame
    \/ AdvanceFrame
    \/ ApplyPotentialFrame

\* The battery's methods and the program's advance called on a battery, with
\* the arrays they touch kept as objects.
SpecFrame == InitFrame /\ [][NextFrame]_vars

\* ----------------------------------------------------------------- claims

\* The cycle of phases the claims speak of.
CycleNext(phase) ==
    CASE phase = "CHARGE_CC" -> "CHARGE_CV"
      [] phase = "CHARGE_CV" -> "REST"
      [] phase = "REST" -> "DISCHARGE_CC"
      [] phase = "DISCHARGE_CC" -> "DISCHARGE_CV"
      [] phase = "DISCHARGE_CV" -> "CHARGE_CC"

\* C1: the phase is always one of the five, and every change of phase made
\* by an advance call (each assignment to self.step, in the call or in its
\* re-entrant calls) goes from a phase to its successor in the cycle: the
\* phases the call passes through start at the phase before the call, end
\* at the phase after it, and each is the successor of the one before.
C1_PhaseCycle ==
    /\ program.step \in Phases
    /\ call.op = "advance" =>
        LET path == call.run.path
        IN  /\ path[1] = call.before.step
            /\ path[Len(path)] = program.step
            /\ \A i \in 1..(Len(path) - 1) : path[i + 1] = CycleNext(path[i])

\* A call that closes the cycle: it starts in DISCHARGE_CV and changes phase.
C1_Witness ==
    /\ call.op = "advance"
    /\ call.before.step = "DISCHARGE_CV"
    /\ program.step = "CHARGE_CV"

\* The exit condition of each phase as the claims state it.
ClaimExit(phase, o, current, count) ==
    CASE phase = "CHARGE_CC" -> ~RLt(o, Q(CHARGE_CV))
      [] phase = "CHARGE_CV" -> RLt(current, Q(ZERO_CURRENT_THRESHOLD))
      [] phase = "REST" -> count > REST_TIMESTEPS
      [] phase = "DISCHARGE_CC" -> ~RLt(Q(DISCHARGE_CV), o)
      [] phase = "DISCHARGE_CV" -> ~RLe(current, Q(-ZERO_CURRENT_THRESHOLD))

\* The target of each phase as the claims state it, and the observation
\* function the solver is given for it.
ClaimTarget(phase) ==
    CASE phase = "CHARGE_CC" -> Q(15)
      [] phase = "CHARGE_CV" -> Q(4)
      [] phase = "REST" -> Q(0)
      [] phase = "DISCHARGE_CC" -> Q(-15)
      [] phase = "DISCHARGE_CV" -> Q(0)

ClaimFn(phase, bat) ==
    IF phase \in {"CHARGE_CV", "DISCHARGE_CV"} THEN bat.compute_ocp ELSE bat.compute_current

ClaimDriver(phase, bat) ==
    guess_drive_pot(bat.charge_curve, ClaimFn(phase, bat), ClaimTarget(phase))

\* The per-phase count an invocation of advance tests: the first invocation
\* of a call reads it before the call's increment, the re-entrant ones after.
CountRead(i) ==
    IF i = 1 THEN call.before.timesteps_in_step ELSE program.timesteps_in_step

C4_RestDuration ==
    call.op = "advance" /\ LeftRest(call.run) => call.rest_span >= REST_TIMESTEPS

\* A call of the named operation that has run.
Done(op) == ~call.pending /\ call.op = op

SolverCalls == {"guess_drive_pot", "get_driver_for_target_current", "get_driver_for_target_ocp"}

\* C5: with an observation function f(p) = a*p + b, a # 0, guess_drive_pot
\* returns a driving potential p with f(p) = target; and the potential
\* get_calc_ocp projects for the driver get_driver_for_target_ocp(target)
\* returns equals the target.
C5_LinearInversion ==
    /\ Done("guess_drive_pot") /\ call.f.a # 0 =>
        /\ call.result.err = ""
        /\ Observe(call.f, call.result.val, call.bat.charge_curve) = call.num
    /\ Done("get_driver_for_target_ocp") =>
        /\ call.result.err = ""
        /\ call.ret = call.num

\* The two points guess_drive_pot samples on f for a curve, and whether they
\* give the same observed value.
Sample0(f, curve) == Observe(f, At(curve, 0), curve)
Sample1(f, curve) ==
    Observe(f, RAdd(At(curve, 0), Q(1)), SetItem0(curve, RAdd(At(curve, 0), Q(1))))
Flat(f, curve) == Sample0(f, curve) = Sample1(f, curve)

\* C6 as stated: whenever the two sampled points give the same observed
\* value, the solver call fails with a division-by-zero error, whatever the
\* target, and so does the advance call that makes it.
C6_FlatAlwaysFails ==
    /\ ~call.pending /\ call.op \in SolverCalls /\ Flat(call.f, call.bat.charge_curve) =>
        call.result.err = "ZeroDivisionError"
    /\ Done("fresh_advance") /\ Flat(ClaimFn(call.run.step, call.bat), call.bat.charge_curve) =>
        call.run.err = "ZeroDivisionError"

\* C6 amended: when the two sampled points give the same observed value v0,
\* the solver call fails with a division-by-zero error for every target
\* other than v0, and for the target v0 it returns curve[0] after a single
\* observation; the advance call that makes the solver call ends with the
\* same error and stores no driver, or stores curve[0].
C6_FlatFailsOffTarget ==
    /\ ~call.pending /\ call.op \in SolverCalls /\ Flat(call.f, call.bat.charge_curve) =>
        IF Sample0(call.f, call.bat.charge_curve) = call.num
        THEN call.result = Returned(At(call.bat.charge_curve, 0), 1)
        ELSE call.result.err = "ZeroDivisionError"
    /\ Done("fresh_advance") /\ Flat(ClaimFn(call.run.step, call.bat), call.bat.charge_curve) =>
        IF Sample0(ClaimFn(call.run.step, call.bat), call.bat.charge_curve)
               = ClaimTarget(call.run.step)
        THEN /\ call.run.err = ""
             /\ call.run.driver = At(call.bat.charge_curve, 0)
        ELSE /\ call.run.err = "ZeroDivisionError"
             /\ call.run.stores = 0
             /\ call.run.driver = call.before.driver

\* An advance call that changed phase and then ended with the solver's
\* division-by-zero error.
C6_Witness ==
    /\ Done("fresh_advance")
    /\ Len(call.run.path) > 1
    /\ call.run.err = "ZeroDivisionError"

\* Evaluations of compute_charge_curve made by the last solver call.
Updates == call.result.observed * UpdatesPerObserve(call.f)

OnBattery == {"get_driver_for_target_current", "get_driver_for_target_ocp"}

\* C7 as stated: every solver call on a battery makes exactly two
\* evaluations of compute_charge_curve.
C7_TwoUpdates ==
    ~call.pending /\ call.op \in OnBattery => Updates = 2

\* C7 amended: a solver call on a battery makes one evaluation of
\* compute_charge_curve when the value observed at curve[0] already equals
\* the target, and three otherwise: the two samples and the one the pairing
\* assertion repeats (assert statements executed).
C7_OneOrThreeUpdates ==
    ~call.pending /\ call.op \in OnBattery =>
        Updates = IF Sample0(call.f, call.bat.charge_curve) = call.num THEN 1 ELSE 3

\* A solver call on a battery that had to fit the line.
C7_Witness ==
    /\ Done("get_driver_for_target_current")
    /\ call.result.err = ""
    /\ call.result.val # At(call.bat.charge_curve, 0)
    /\ Updates = 3

\* C8: the potential the solver observes for a driving potential p and a
\* curve c, compute_ocp(p, c), is the value at index 1 of the updated curve,
\* the quantity apply_potential(p) stores as the battery's ocp.
C8_SolverObservesOcp ==
    call.op = "apply_potential" =>
        /\ diffusion_ocp(call.num, call.bat.charge_curve) = battery.ocp
        /\ diffusion_ocp(call.num, call.bat.charge_curve) = At(battery.charge_curve, 1)

\* C9: after every apply_potential call on a battery created with its
\* defaults, soc is the sum of charge_curve, ocp is charge_curve[1], and the
\* current returned is the sum of the new curve minus the sum of the curve
\* before the call.
C9_CachesFollowCurve ==
    call.op = "apply_potential" =>
        /\ battery.soc = NpSum(battery.charge_curve)
        /\ battery.ocp = At(battery.charge_curve, 1)
        /\ call.ret = RSub(NpSum(battery.charge_curve), NpSum(call.bat.charge_curve))

\* A second apply_potential call that moved charge.
C9_Witness ==
    /\ call.op = "apply_potential"
    /\ hist.applies >= 2
    /\ call.bat.soc # Q(0)
    /\ call.ret # Q(0)

\* The samples of a metric: for Charge, the arrays it holds.
Xs(ms, k) == ms[k].x
Ys(ms, k) == IF k = "charge" THEN ms[k].y.a ELSE ms[k].y

\* new is old with exactly one sample appended.
AppendsOne(old, new, k) ==
    /\ Len(Xs(new, k)) = Len(Xs(old, k)) + 1
    /\ Len(Ys(new, k)) = Len(Ys(old, k)) + 1
    /\ SubSeq(Xs(new, k), 1, Len(Xs(old, k))) = Xs(old, k)
    /\ SubSeq(Ys(new, k), 1, Len(Ys(old, k))) = Ys(old, k)

ScalarMetrics == {"soc", "influx", "driver", "potential"}

StepCurrent == RSub(NpSum(battery.charge_curve), NpSum(call.bat.charge_curve))

\* C11: each advance_timestep call applies the driver the program's previous
\* advance stored (DPOT_INIT at the first step) to the battery exactly once,
\* and then advances the program exactly once, consuming one timestep, with
\* the ocp of the updated battery and the current of this step, the sum of
\* the new curve minus the sum of the previous curve.
C11_OneCycle ==
    call.op = "advance_timestep" =>
        /\ hist.frames = 1 => call.before.driver = Q(DPOT_INIT)
        /\ battery.charge_curve =
               compute_charge_curve(call.before.driver, call.bat.charge_curve)
        /\ program.timestep = call.before.timestep + 1
        /\ MetricVal(metrics.influx) = StepCurrent
        /\ program = ProgramOf(advance(StartRun(call.before), battery, StepCurrent, TRUE))

\* C12: in a timestep-consuming advance call that starts in REST, the test
\* 'per-phase count > REST_TIMESTEPS' uses the counter after this call's
\* increment, the value a re-entrant call entering REST would use: the call
\* leaves REST exactly when the incremented counter exceeds REST_TIMESTEPS.
C12_RestTestsIncrementedCount ==
    call.op = "advance" /\ call.before.step = "REST" =>
        /\ program.timesteps_in_step = call.before.timesteps_in_step + 1
        /\ Len(call.run.path) > 1 <=> program.timesteps_in_step > REST_TIMESTEPS

\* C13: compute_charge_curve, compute_current, compute_ocp,
\* get_driver_for_target_current, get_driver_for_target_ocp and advance leave
\* the battery's charge_curve (the attribute and every cell of the array),
\* soc and ocp as they were; apply_potential alone changes them, and it binds
\* charge_curve to a new array, the computed curve, leaving the old array
\* untouched.
C13_OnlyApplyPotentialWrites ==
    ~call.pending /\ call.op # "none" =>
        /\ call.heap[1] = call.bat.charge_curve
        /\ call.op # "apply_potential" =>
               /\ call.ref = 1
               /\ call.after = call.bat
        /\ call.op = "apply_potential" =>
               /\ call.ref # 1
               /\ call.after = apply_potential(call.bat, call.num).self
               /\ call.after.charge_curve =
                      compute_charge_curve(call.num, call.bat.charge_curve)

\* A solver call that wrote into working copies of the battery's array.
C13_Witness ==
    /\ ~call.pending
    /\ call.op = "get_driver_for_target_ocp"
    /\ \E r \in 2..Len(call.heap) :
           /\ call.heap[r].dtype = call.heap[1].dtype
           /\ call.heap[r] # call.heap[1]

\* C14: every advance call terminates: the chain of re-entrant phase switches
\* inside one call makes at most four switches and visits no phase twice,
\* and, unless the solver raises, the call ends by storing exactly one new
\* driver, the solver's for the phase it stops in.
C14_AdvanceTerminates ==
    call.op = "advance" =>
        LET path == call.run.path
        IN  /\ Len(path) >= 1 /\ Len(path) - 1 <= 4
            /\ \A i, j \in 1..Len(path) : path[i] = path[j] => i = j
            /\ program.step = path[Len(path)]
            /\ ~ClaimExit(program.step, call.bat.ocp, call.num, CountRead(Len(path)))
            /\ IF ClaimDriver(program.step, call.bat).err = ""
               THEN /\ call.run.err = ""
                    /\ call.run.stores = 1
                    /\ program.driver = ClaimDriver(program.step, call.bat).val
               ELSE /\ call.run.err = ClaimDriver(program.step, call.bat).err
                    /\ call.run.stores = 0
                    /\ program.driver = call.before.driver

\* A call that changes phase four times, CHARGE_CV round to CHARGE_CC, and
\* stores one driver.
C14_Witness ==
    /\ call.op = "advance"
    /\ Len(call.run.path) = 5
    /\ call.before.step = "CHARGE_CV"
    /\ program.step = "CHARGE_CC"
    /\ call.run.stores = 1

====
